---- MODULE Spec2Model ----
(***************************************************************************)
(* SimpleMultithreader: a Pthreads fork-join parallel_for (1-D and 2-D).  *)
(* The model follows src/simple-multithreader.h; src/unnamed/part_000 is  *)
(* the same algorithm inside namespace simple_mt.                         *)
(*                                                                         *)
(* One behaviour of the model is one call of parallel_for: the calling    *)
(* thread walks through the function body, every spawned worker walks     *)
(* through its pthread entry function, and all of them interleave freely. *)
(* `int` is a two's-complement integer of IntBits bits, `long long` one   *)
(* of 2*IntBits bits.                                                      *)
(***************************************************************************)
EXTENDS Integers, Sequences, FiniteSets, TLC

(***************************************************************************)
(* Bounds of the model.                                                    *)
(***************************************************************************)
\* width of the C++ type int in the model (the real one has 32 bits)
IntBits == 5
\* largest numThreads argument a caller passes
MaxThreads == 3

INT_MAX == 2^(IntBits - 1) - 1
INT_MIN == -(2^(IntBits - 1))

(***************************************************************************)
(* Machine arithmetic.                                                     *)
(***************************************************************************)
\* the value of x as a two's-complement integer of `bits` bits
WrapTo(x, bits) == ((x + 2^(bits - 1)) % 2^bits) - 2^(bits - 1)

\* int arithmetic: the exact result reduced to the width of int
Wrap(x) == WrapTo(x, IntBits)

\* long long arithmetic
WrapLL(x) == WrapTo(x, 2 * IntBits)

\* signed overflow: the exact result of an int operation is not an int
Overflows(x) == x < INT_MIN \/ x > INT_MAX

Abs(x) == IF x < 0 THEN -x ELSE x

\* C++ integer division truncates toward zero
CDiv(a, b) ==
    IF (a < 0) = (b < 0) THEN Abs(a) \div Abs(b) ELSE -(Abs(a) \div Abs(b))

\* C++ remainder: a == (a / b) * b + a % b
CMod(a, b) == a - b * CDiv(a, b)

(***************************************************************************)
(* State.                                                                  *)
(***************************************************************************)
VARIABLES
    dim,         \* which overload is called: "1D" or "2D"
    low, high,   \* arguments of the 1-D overload
    low1, high1, low2, high2,   \* arguments of the 2-D overload
    numThreadsArg,   \* the numThreads argument as passed by the caller
    bad,         \* the arguments on which the caller's lambda throws
    ub,          \* what the build does on signed overflow: "wrap" or "trap"
    pc,          \* position of the calling thread in parallel_for
    numThreads,  \* the local numThreads after coercion and fallback
    parts,       \* the vector of <<first, second>> pairs
    width,       \* static_cast<int>(cols), 0 in the 1-D overload
    t,           \* counter of the spawn loop
    tids,        \* the vector of created threads, as worker numbers
    jn,          \* number of tids already joined by the current join loop
    cur,         \* loop variable of the calling thread's own piece
    wst,         \* worker number -> its SM_ThreadArg and its position
    joins,       \* worker number -> how often pthread_join returned for it
    wtrace,      \* worker number -> the lambda calls it made, in order
    mtrace,      \* the lambda calls the calling thread made, in order
    refs,        \* use count of the shared std::function (0: destroyed)
    argmem       \* worker number -> the heap cell of its SM_ThreadArg

vars == <<dim, low, high, low1, high1, low2, high2, numThreadsArg, bad, ub,
          pc, numThreads, parts, width, t, tids, jn, cur, wst, joins,
          wtrace, mtrace, refs, argmem>>

\* the resources of a call: the shared lambda and the thread arguments
res == <<refs, argmem>>

args == <<dim, low, high, low1, high1, low2, high2, numThreadsArg, bad, ub>>

\* worker numbers: worker k runs parts[k] (0-based, as in the code)
Workers == 0 .. (MaxThreads - 2)

(***************************************************************************)
(* Inputs of a call.                                                       *)
(***************************************************************************)
\* bounds of 1-D ranges a caller passes
Vals1D == {INT_MIN, -1, 0, 3, 10, INT_MAX}

\* row and column bounds of 2-D ranges a caller passes
ValsRow == {INT_MIN, -1, 0, 3, INT_MAX}
ValsCol == {INT_MIN, -1, 0, 4, INT_MAX}

\* numThreads arguments a caller passes
ValsThreads == -1 .. MaxThreads

\* the lambda of a 1-D call throws on a subset of these indices
Bad1D == {<<-1>>, <<1>>, <<2>>}

\* the lambda of a 2-D call throws on a subset of these cells
Bad2D == {<<0, 0>>, <<0, 1>>, <<2, 3>>}

\* what the lambda does when called with argument a: it returns or it throws
Throws(a) == a \in bad

(***************************************************************************)
(* sm_split_range: split [low, high) into numPieces contiguous pieces.    *)
(* The result is the vector of pairs, and whether an int operation of the *)
(* computation overflowed.                                                 *)
(***************************************************************************)
RECURSIVE SplitLoop(_, _, _, _, _, _)
\* the loop `for (int t = 0; t < numPieces; ++t)` from iteration tt on
SplitLoop(tt, numPieces, base, rem, cursor, acc) ==
    IF tt >= numPieces THEN acc
    ELSE LET add == base + (IF tt < rem THEN 1 ELSE 0)
             e   == cursor + add
         IN  SplitLoop(tt + 1, numPieces, base, rem, Wrap(e),
                       [parts |-> Append(acc.parts, <<cursor, Wrap(e)>>),
                        ovf   |-> acc.ovf \/ Overflows(add) \/ Overflows(e)])

\* a plausible slip: the remainder is dropped, every piece gets `base`
sm_split_range_NoRem(lo, hi, numPieces) ==
    IF numPieces <= 0 THEN [parts |-> <<>>, ovf |-> FALSE]
    ELSE IF lo >= hi
         THEN [parts |-> [k \in 1 .. numPieces |-> <<lo, lo>>], ovf |-> FALSE]
         ELSE LET total == Wrap(hi - lo)
                  base  == CDiv(total, numPieces)
              IN  SplitLoop(0, numPieces, base, 0, lo,
                            [parts |-> <<>>, ovf |-> Overflows(hi - lo)])

\* a plausible slip: the pieces of an empty range are <<low, high>>
sm_split_range_EmptyAsGiven(lo, hi, numPieces) ==
    IF numPieces <= 0 THEN [parts |-> <<>>, ovf |-> FALSE]
    ELSE IF lo >= hi
         THEN [parts |-> [k \in 1 .. numPieces |-> <<lo, hi>>], ovf |-> FALSE]
         ELSE LET total == Wrap(hi - lo)
                  base  == CDiv(total, numPieces)
                  rem   == CMod(total, numPieces)
              IN  SplitLoop(0, numPieces, base, rem, lo,
                            [parts |-> <<>>, ovf |-> Overflows(hi - lo)])

sm_split_range(lo, hi, numPieces) ==
    IF numPieces <= 0 THEN [parts |-> <<>>, ovf |-> FALSE]
    ELSE IF lo >= hi
         THEN [parts |-> [k \in 1 .. numPieces |-> <<lo, lo>>], ovf |-> FALSE]
         ELSE LET total == Wrap(hi - lo)
                  base  == CDiv(total, numPieces)
                  rem   == CMod(total, numPieces)
              IN  SplitLoop(0, numPieces, base, rem, lo,
                            [parts |-> <<>>, ovf |-> Overflows(hi - lo)])

(***************************************************************************)
(* The 2-D index mapping of a flat index, as both loops compute it.       *)
(***************************************************************************)
\* a plausible slip: row and column are computed with the operators swapped
MapFlat_Swapped(flat, w, l1, l2) ==
    <<Wrap(CMod(flat, w) + l1), Wrap(CDiv(flat, w) + l2)>>

\* a plausible slip: the column origin is not added
MapFlat_NoColOrigin(flat, w, l1, l2) ==
    <<Wrap(CDiv(flat, w) + l1), Wrap(CMod(flat, w))>>

\* int i = flat / w + low1; int j = flat % w + low2;
MapFlat(flat, w, l1, l2) ==
    <<Wrap(CDiv(flat, w) + l1), Wrap(CMod(flat, w) + l2)>>

\* one of the two additions overflows
MapOverflows(flat, w, l1, l2) ==
    Overflows(CDiv(flat, w) + l1) \/ Overflows(CMod(flat, w) + l2)

(***************************************************************************)
(* The prologue of parallel_for, up to the spawn loop: the position the   *)
(* calling thread reaches and the locals it has computed.                 *)
(***************************************************************************)
\* a plausible slip: a non-positive thread count becomes 2
CoerceThreads_Two(n) == IF n <= 0 THEN 2 ELSE n

\* if (numThreads <= 0) numThreads = 1;
CoerceThreads(n) == IF n <= 0 THEN 1 ELSE n

\* split, and fall back to one piece if the split has the wrong size
SplitOrFallback(lo, hi, n, w, u) ==
    LET sp  == sm_split_range(lo, hi, n)
        fb  == Len(sp.parts) # n
        sp1 == sm_split_range(lo, hi, 1)
    IN  IF (sp.ovf \/ (fb /\ sp1.ovf)) /\ u = "trap"
        THEN [pc |-> "aborted", numThreads |-> n, parts |-> <<>>, width |-> 0]
        ELSE [pc |-> "spawn", numThreads |-> IF fb THEN 1 ELSE n,
              parts |-> IF fb THEN sp1.parts ELSE sp.parts, width |-> w]

\* a plausible slip: the empty-range test is missing
Prologue1D_NoEmptyTest(lo, hi, n, u) ==
    SplitOrFallback(lo, hi, CoerceThreads(n), 0, u)

Prologue1D(lo, hi, n, u) ==
    LET nt == CoerceThreads(n)
    IN  IF lo >= hi
        THEN [pc |-> "returned", numThreads |-> nt, parts |-> <<>>, width |-> 0]
        ELSE SplitOrFallback(lo, hi, nt, 0, u)

Prologue2D(l1, h1, l2, h2, n, u) ==
    LET nt    == CoerceThreads(n)
        stop(p) == [pc |-> p, numThreads |-> nt, parts |-> <<>>, width |-> 0]
        rows  == Wrap(h1 - l1)
        cols  == Wrap(h2 - l2)
        total == WrapLL(rows * cols)
    IN  IF l1 >= h1 \/ l2 >= h2 THEN stop("returned")
        ELSE IF (Overflows(h1 - l1) \/ Overflows(h2 - l2)) /\ u = "trap"
             THEN stop("aborted")
        ELSE IF total <= 0 THEN stop("returned")
        ELSE IF total > INT_MAX THEN stop("thrown_overflow")
        ELSE SplitOrFallback(0, total, nt, cols, u)

(***************************************************************************)
(* Initial states: a caller is about to call one of the two overloads.    *)
(***************************************************************************)
\* an SM_ThreadArg that was never allocated
NoArg == [st |-> "unborn", start_idx |-> 0, end_idx |-> 0,
          low1 |-> 0, low2 |-> 0, width2 |-> 0, i |-> 0]

\* the heap cell of an SM_ThreadArg before `new`: its state ("none", "live"
\* or "freed"), how often it was deleted, and whether it was read when not live
NoCell == [state |-> "none", frees |-> 0, stale |-> FALSE]

Init ==
    /\ dim \in {"1D", "2D"}
    /\ IF dim = "1D"
       THEN /\ low \in Vals1D /\ high \in Vals1D
            /\ low1 = 0 /\ high1 = 0 /\ low2 = 0 /\ high2 = 0
            /\ bad \in SUBSET Bad1D
       ELSE /\ low = 0 /\ high = 0
            /\ low1 \in ValsRow /\ high1 \in ValsRow
            /\ low2 \in ValsCol /\ high2 \in ValsCol
            /\ bad \in SUBSET Bad2D
    /\ numThreadsArg \in ValsThreads
    /\ ub \in {"wrap", "trap"}
    /\ pc = "entry"
    /\ numThreads = numThreadsArg
    /\ parts = <<>>
    /\ width = 0
    /\ t = 0
    /\ tids = <<>>
    /\ jn = 0
    /\ cur = 0
    /\ wst = [k \in Workers |-> NoArg]
    /\ joins = [k \in Workers |-> 0]
    /\ wtrace = [k \in Workers |-> <<>>]
    /\ mtrace = <<>>
    /\ refs = 0
    /\ argmem = [k \in Workers |-> NoCell]

(***************************************************************************)
(* The calling thread.                                                     *)
(***************************************************************************)
to_create == numThreads - 1
main_idx == to_create

\* the calling thread reaches position r.pc with the locals of r
Reach(r) ==
    /\ pc' = r.pc
    /\ numThreads' = r.numThreads
    /\ parts' = r.parts
    /\ width' = r.width
    /\ refs' = IF r.pc = "spawn" THEN 1 ELSE refs
    /\ UNCHANGED <<args, t, tids, jn, cur, wst, joins, wtrace, mtrace, argmem>>

\* parallel_for (1D), from its first line to the spawn loop
Enter1D ==
    /\ pc = "entry" /\ dim = "1D"
    /\ Reach(Prologue1D(low, high, numThreadsArg, ub))

\* parallel_for (2D), from its first line to the spawn loop
Enter2D ==
    /\ pc = "entry" /\ dim = "2D"
    /\ Reach(Prologue2D(low1, high1, low2, high2, numThreadsArg, ub))

\* a plausible slip: the SM_ThreadArg refers to the caller's shared_ptr
\* instead of holding a copy of it
SpawnOk_NoCopy ==
    /\ pc = "spawn" /\ t < to_create
    /\ wst' = [wst EXCEPT ![t] =
                 [st |-> "created",
                  start_idx |-> parts[t + 1][1], end_idx |-> parts[t + 1][2],
                  low1 |-> IF dim = "2D" THEN low1 ELSE 0,
                  low2 |-> IF dim = "2D" THEN low2 ELSE 0,
                  width2 |-> width,
                  i |-> parts[t + 1][1]]]
    /\ tids' = Append(tids, t)
    /\ t' = t + 1
    /\ argmem' = [argmem EXCEPT ![t].state = "live"]
    /\ UNCHANGED <<args, pc, numThreads, parts, width, jn, cur, joins,
                   wtrace, mtrace, refs>>

\* one iteration of the spawn loop in which pthread_create succeeds
SpawnOk ==
    /\ pc = "spawn" /\ t < to_create
    /\ wst' = [wst EXCEPT ![t] =
                 [st |-> "created",
                  start_idx |-> parts[t + 1][1], end_idx |-> parts[t + 1][2],
                  low1 |-> IF dim = "2D" THEN low1 ELSE 0,
                  low2 |-> IF dim = "2D" THEN low2 ELSE 0,
                  width2 |-> width,
                  i |-> parts[t + 1][1]]]
    /\ tids' = Append(tids, t)
    /\ t' = t + 1
    /\ refs' = refs + 1
    /\ argmem' = [argmem EXCEPT ![t].state = "live"]
    /\ UNCHANGED <<args, pc, numThreads, parts, width, jn, cur, joins,
                   wtrace, mtrace>>

\* a plausible slip: the error is thrown without joining the created threads
SpawnFail_NoJoin ==
    /\ pc = "spawn" /\ t < to_create
    /\ pc' = "thrown_startup"
    /\ refs' = refs - 1
    /\ argmem' = [argmem EXCEPT ![t].state = "freed", ![t].frees = @ + 1]
    /\ UNCHANGED <<args, numThreads, parts, width, t, tids, jn, cur, wst,
                   joins, wtrace, mtrace>>

\* a plausible slip: the handle of the failed pthread_create is kept in tids
SpawnFail_KeepTid ==
    /\ pc = "spawn" /\ t < to_create
    /\ pc' = "unwind"
    /\ jn' = 0
    /\ tids' = Append(tids, t)
    /\ argmem' = [argmem EXCEPT ![t].state = "freed", ![t].frees = @ + 1]
    /\ UNCHANGED <<args, numThreads, parts, width, t, cur, wst,
                   joins, wtrace, mtrace, refs>>

\* one iteration of the spawn loop in which pthread_create fails:
\* the new SM_ThreadArg (with its copy of the shared_ptr) is deleted again,
\* then the join loop of the failure path starts
SpawnFail ==
    /\ pc = "spawn" /\ t < to_create
    /\ pc' = "unwind"
    /\ jn' = 0
    /\ argmem' = [argmem EXCEPT ![t].state = "freed", ![t].frees = @ + 1]
    /\ UNCHANGED <<args, numThreads, parts, width, t, tids, cur, wst,
                   joins, wtrace, mtrace, refs>>

\* a plausible slip: the handle is released without waiting for the thread
\* (pthread_detach in place of pthread_join)
JoinNext_NoWait ==
    /\ jn < Len(tids)
    /\ joins' = [joins EXCEPT ![tids[jn + 1]] = @ + 1]
    /\ jn' = jn + 1
    /\ UNCHANGED <<args, pc, numThreads, parts, width, t, tids, cur, wst,
                   wtrace, mtrace, res>>

\* pthread_join returns for the next thread of tids: it has terminated
JoinNext ==
    /\ jn < Len(tids)
    /\ wst[tids[jn + 1]].st = "done"
    /\ joins' = [joins EXCEPT ![tids[jn + 1]] = @ + 1]
    /\ jn' = jn + 1
    /\ UNCHANGED <<args, pc, numThreads, parts, width, t, tids, cur, wst,
                   wtrace, mtrace, res>>

\* the join loop of the failure path
UnwindJoin == pc = "unwind" /\ JoinNext

\* throw std::runtime_error("pthread_create failed")
ThrowStartup ==
    /\ pc = "unwind" /\ jn = Len(tids)
    /\ pc' = "thrown_startup"
    /\ refs' = refs - 1
    /\ UNCHANGED <<args, numThreads, parts, width, t, tids, jn, cur, wst,
                   joins, wtrace, mtrace, argmem>>

\* a plausible slip: the calling thread takes the first piece
SpawnDone_FirstPiece ==
    /\ pc = "spawn" /\ t >= to_create
    /\ pc' = "run"
    /\ cur' = parts[1][1]
    /\ UNCHANGED <<args, numThreads, parts, width, t, tids, jn, wst, joins,
                   wtrace, mtrace, res>>

\* the spawn loop ends; the calling thread starts the last piece
SpawnDone ==
    /\ pc = "spawn" /\ t >= to_create
    /\ pc' = "run"
    /\ cur' = parts[main_idx + 1][1]
    /\ UNCHANGED <<args, numThreads, parts, width, t, tids, jn, wst, joins,
                   wtrace, mtrace, res>>

\* the argument the thread at loop position x passes to the lambda
LambdaArg(x, w, l1, l2) ==
    IF dim = "1D" THEN <<x>> ELSE MapFlat(x, w, l1, l2)

\* computing that argument overflows an int
ArgOverflows(x, w, l1, l2) == dim = "2D" /\ MapOverflows(x, w, l1, l2)

\* a plausible slip: the calling thread swallows the lambda's exception too
MainStep_Swallow ==
    /\ pc = "run"
    /\ IF cur < parts[main_idx + 1][2]
       THEN /\ mtrace' = Append(mtrace, LambdaArg(cur, width, low1, low2))
            /\ cur' = cur + 1
            /\ UNCHANGED <<pc, jn>>
       ELSE /\ pc' = "join" /\ jn' = 0
            /\ UNCHANGED <<cur, mtrace>>
    /\ UNCHANGED <<args, numThreads, parts, width, t, tids, wst, joins, wtrace,
                   res>>

\* one iteration of the calling thread's loop over the last piece, or its end
MainStep ==
    /\ pc = "run"
    /\ IF cur < parts[main_idx + 1][2]
       THEN IF ArgOverflows(cur, width, low1, low2) /\ ub = "trap"
            THEN /\ pc' = "aborted"
                 /\ UNCHANGED <<cur, jn, mtrace, refs>>
            ELSE LET a == LambdaArg(cur, width, low1, low2)
                 IN  /\ mtrace' = Append(mtrace, a)
                     /\ IF Throws(a)
                        THEN pc' = "thrown_body" /\ cur' = cur
                             /\ refs' = refs - 1
                        ELSE pc' = pc /\ cur' = cur + 1 /\ refs' = refs
                     /\ jn' = jn
       ELSE /\ pc' = "join" /\ jn' = 0
            /\ UNCHANGED <<cur, mtrace, refs>>
    /\ UNCHANGED <<args, numThreads, parts, width, t, tids, wst, joins, wtrace,
                   argmem>>

\* the final join loop
Join == pc = "join" /\ JoinNext

\* all threads are joined: parallel_for returns
Return ==
    /\ pc = "join" /\ jn = Len(tids)
    /\ pc' = "returned"
    /\ refs' = refs - 1
    /\ UNCHANGED <<args, numThreads, parts, width, t, tids, jn, cur, wst,
                   joins, wtrace, mtrace, argmem>>

(***************************************************************************)
(* A worker: sm_thread_entry_1d / sm_thread_entry_2d.                     *)
(***************************************************************************)
\* the worker reads a field of *arg: a read of a cell that is not live is
\* recorded in the cell
WorkerRead(k) ==
    /\ argmem' = [argmem EXCEPT ![k].stale = @ \/ argmem[k].state # "live"]
    /\ refs' = refs

\* a plausible slip: the thread function returns without `delete arg`
WorkerExit_NoDelete(k) ==
    /\ refs' = refs - 1
    /\ argmem' = argmem

\* the end of the thread function: the local copy f of the shared_ptr is
\* destroyed when the try block is left, then `delete arg` destroys the
\* argument with its copy of the shared_ptr
WorkerExit(k) ==
    /\ refs' = refs - 2
    /\ argmem' = [argmem EXCEPT ![k].state = "freed", ![k].frees = @ + 1]

\* the thread function starts: `auto f = arg->lambda` reads *arg and takes
\* another copy of the shared_ptr
WorkerStart(k) ==
    /\ pc # "aborted"
    /\ wst[k].st = "created"
    /\ wst' = [wst EXCEPT ![k].st = "running"]
    /\ refs' = refs + 1
    /\ argmem' = [argmem EXCEPT ![k].stale = @ \/ argmem[k].state # "live"]
    /\ UNCHANGED <<args, pc, numThreads, parts, width, t, tids, jn, cur,
                   joins, wtrace, mtrace>>

\* a plausible slip: no try/catch, the exception leaves the thread function
\* and reaches the caller's process
WorkerStep_NoCatch(k) ==
    /\ pc # "aborted"
    /\ wst[k].st = "running"
    /\ LET r == wst[k]
       IN  IF r.i < r.end_idx
           THEN LET a == LambdaArg(r.i, r.width2, r.low1, r.low2)
                IN  /\ wtrace' = [wtrace EXCEPT ![k] = Append(@, a)]
                    /\ IF Throws(a)
                       THEN pc' = "thrown_body" /\ wst' = wst
                       ELSE pc' = pc /\ wst' = [wst EXCEPT ![k].i = @ + 1]
                    /\ UNCHANGED res
           ELSE /\ wst' = [wst EXCEPT ![k].st = "done"]
                /\ WorkerExit(k)
                /\ UNCHANGED <<pc, wtrace>>
    /\ UNCHANGED <<args, numThreads, parts, width, t, tids, jn, cur, joins,
                   mtrace>>

\* one iteration of the worker's loop, or the end of the thread function
\* (after the loop or from the catch block: delete arg; return nullptr)
WorkerStep(k) ==
    /\ pc # "aborted"
    /\ wst[k].st = "running"
    /\ LET r == wst[k]
       IN  IF r.i < r.end_idx
           THEN IF ArgOverflows(r.i, r.width2, r.low1, r.low2) /\ ub = "trap"
                THEN /\ pc' = "aborted"
                     /\ UNCHANGED <<wst, wtrace, res>>
                ELSE LET a == LambdaArg(r.i, r.width2, r.low1, r.low2)
                     IN  /\ wtrace' = [wtrace EXCEPT ![k] = Append(@, a)]
                         /\ IF Throws(a)
                            THEN /\ wst' = [wst EXCEPT ![k].st = "done"]
                                 /\ WorkerExit(k)
                            ELSE /\ wst' = [wst EXCEPT ![k].i = @ + 1]
                                 /\ WorkerRead(k)
                         /\ pc' = pc
           ELSE /\ wst' = [wst EXCEPT ![k].st = "done"]
                /\ WorkerExit(k)
                /\ UNCHANGED <<pc, wtrace>>
    /\ UNCHANGED <<args, numThreads, parts, width, t, tids, jn, cur, joins,
                   mtrace>>

Next ==
    \/ Enter1D
    \/ Enter2D
    \/ SpawnOk
    \/ SpawnFail
    \/ UnwindJoin
    \/ ThrowStartup
    \/ SpawnDone
    \/ MainStep
    \/ Join
    \/ Return
    \/ \E k \in Workers : WorkerStart(k)
    \/ \E k \in Workers : WorkerStep(k)

Spec == Init /\ [][Next]_vars

(***************************************************************************)
(* Scheduling.  The calling thread and every created worker are threads   *)
(* of the operating system: each of them that can take a step eventually  *)
(* takes one.  Every call of the body is one step of its thread, so every *)
(* call of the body terminates, by returning or by throwing.              *)
(***************************************************************************)
\* the steps of the calling thread
MainNext ==
    \/ Enter1D
    \/ Enter2D
    \/ SpawnOk
    \/ SpawnFail
    \/ UnwindJoin
    \/ ThrowStartup
    \/ SpawnDone
    \/ MainStep
    \/ Join
    \/ Return

\* the steps of worker k
WorkerNext(k) == WorkerStart(k) \/ WorkerStep(k)

FairSpec ==
    /\ Spec
    /\ WF_vars(MainNext)
    /\ \A k \in Workers : WF_vars(WorkerNext(k))

(***************************************************************************)
(* Vocabulary of the properties.                                           *)
(***************************************************************************)
\* how often argument a occurs in the sequence of calls s
Occ(s, a) == Cardinality({p \in 1 .. Len(s) : s[p] = a})

\* how often the lambda was called with argument a, by any thread
Count(a) ==
    LET RECURSIVE Sum(_)
        Sum(S) == IF S = {} THEN 0
                  ELSE LET k == CHOOSE x \in S : TRUE
                       IN  Occ(wtrace[k], a) + Sum(S \ {k})
    IN  Occ(mtrace, a) + Sum(Workers)

\* the arguments the lambda was called with so far
Invoked ==
    {mtrace[p] : p \in 1 .. Len(mtrace)}
        \cup UNION {{wtrace[k][p] : p \in 1 .. Len(wtrace[k])} : k \in Workers}

\* the last call of the calling thread / of worker k threw
MainThrew == Len(mtrace) > 0 /\ Throws(mtrace[Len(mtrace)])
WorkerThrew(k) == Len(wtrace[k]) > 0 /\ Throws(wtrace[k][Len(wtrace[k])])
NoCallThrew == ~MainThrew /\ \A k \in Workers : ~WorkerThrew(k)

\* the workers created so far
Spawned == {tids[p] : p \in 1 .. Len(tids)}

\* the indices of the 1-D range and the cells of the 2-D range
Range1D == {<<x>> : x \in low .. (high - 1)}
Cells == {<<x, y>> : x \in low1 .. (high1 - 1), y \in low2 .. (high2 - 1)}

\* the true size of the 2-D range, and whether it is a valid flat size
Size2D == (high1 - low1) * (high2 - low2)
NonEmpty2D == low1 < high1 /\ low2 < high2
Fits2D == NonEmpty2D /\ Size2D <= INT_MAX

\* the range is empty
EmptyRange ==
    IF dim = "1D" THEN low >= high ELSE (low1 >= high1 \/ low2 >= high2)

\* the calls a loop makes for the n loop positions from `first` on
Calls(first, n, w, l1, l2) ==
    [p \in 1 .. n |-> LambdaArg(first + p - 1, w, l1, l2)]

\* the calling thread has left parallel_for
Left == pc \in {"returned", "thrown_startup", "thrown_overflow", "thrown_body"}

(***************************************************************************)
(* C1: when a 1-D call with low < high returns and no call of the body    *)
(* threw, the body was called exactly once for each index of [low, high)  *)
(* and for no other index.                                                 *)
(***************************************************************************)
C1_ExactlyOnce1D ==
    (dim = "1D" /\ low < high /\ pc = "returned" /\ NoCallThrew)
        => /\ Invoked \subseteq Range1D
           /\ \A a \in Range1D : Count(a) = 1

\* the same for the ranges whose size fits an int: this part of C1 holds
ExactlyOnce1D_Fits ==
    (dim = "1D" /\ low < high /\ high - low <= INT_MAX
       /\ pc = "returned" /\ NoCallThrew)
        => /\ Invoked \subseteq Range1D
           /\ \A a \in Range1D : Count(a) = 1

(***************************************************************************)
(* C2: whenever the calling thread has left parallel_for, by a return or  *)
(* by any exception, every worker it created has terminated and has been  *)
(* joined.                                                                 *)
(***************************************************************************)
C2_JoinedOnEveryExit ==
    Left => \A k \in Spawned : wst[k].st = "done" /\ joins[k] >= 1

(***************************************************************************)
(* C3: when a 2-D call on a non-empty range whose size fits an int        *)
(* returns and no call of the body threw, the body was called exactly     *)
(* once for each cell of the range and for no other pair.                 *)
(***************************************************************************)
C3_ExactlyOnce2D ==
    (dim = "2D" /\ Fits2D /\ pc = "returned" /\ NoCallThrew)
        => /\ Invoked \subseteq Cells
           /\ \A a \in Cells : Count(a) = 1

\* a 2-D call with several rows and columns returned, and a worker and the
\* calling thread both made calls
C3_Witness ==
    /\ dim = "2D" /\ Fits2D /\ pc = "returned" /\ NoCallThrew
    /\ high1 - low1 > 1 /\ high2 - low2 > 1
    /\ Len(tids) >= 1 /\ Len(wtrace[0]) > 0 /\ Len(mtrace) > 0

(***************************************************************************)
(* C4: when the runtime_error of a failed pthread_create reaches the      *)
(* caller, the failing attempt was number Len(tids)+1, each of the        *)
(* Len(tids) workers created before it has terminated and was joined      *)
(* exactly once, and no other worker exists.                               *)
(***************************************************************************)
C4_UnwindJoinsAll ==
    pc = "thrown_startup"
        => /\ Len(tids) = t /\ t < to_create
           /\ \A k \in Workers :
                 IF k \in Spawned
                 THEN wst[k].st = "done" /\ joins[k] = 1
                 ELSE wst[k].st = "unborn" /\ joins[k] = 0

\* the second pthread_create failed and the error has reached the caller
C4_Witness == pc = "thrown_startup" /\ Len(tids) >= 1

(***************************************************************************)
(* C5: a 2-D call on a non-empty range whose true size exceeds INT_MAX    *)
(* ends with the "2D range too large" runtime_error: it never returns     *)
(* normally, creates no worker and never calls the body.  (A build that   *)
(* traps on signed overflow ends the process instead; the formula lets    *)
(* that pass, so that a violation is a call that goes on.)                *)
(***************************************************************************)
C5_OverflowRejected ==
    (dim = "2D" /\ NonEmpty2D /\ Size2D > INT_MAX)
        => /\ pc \in {"entry", "thrown_overflow", "aborted"}
           /\ tids = <<>>
           /\ Invoked = {}

(***************************************************************************)
(* C6: when a call on a range whose size fits an int returns, every index *)
(* (cell) of the range on which the body does not throw was called        *)
(* exactly once, whether or not a worker's call threw; in particular the  *)
(* indices that follow a throwing one in the same worker's piece.         *)
(***************************************************************************)
C6_OnlyFailingIndexMissing ==
    (pc = "returned" /\ ~EmptyRange)
        => /\ (dim = "1D" /\ high - low <= INT_MAX)
                => \A a \in Range1D \ bad : Count(a) = 1
           /\ (dim = "2D" /\ Fits2D)
                => \A a \in Cells \ bad : Count(a) = 1

(***************************************************************************)
(* C7: an exception of the body on a worker never reaches the caller.     *)
(* A worker whose call threw has terminated; the calling thread is at     *)
(* "thrown_body" only when its own call threw; once all threads have      *)
(* stopped after a worker's call threw, the call has returned unless a    *)
(* pthread_create failed, the calling thread's own call threw or the      *)
(* process was ended by an overflow trap; and on return every thread      *)
(* whose own call did not throw has made all the calls of its piece.      *)
(***************************************************************************)
C7_WorkerErrorSwallowed ==
    /\ \A k \in Workers : WorkerThrew(k) => wst[k].st = "done"
    /\ pc = "thrown_body" => MainThrew
    /\ ((\E k \in Workers : WorkerThrew(k)) /\ ~ENABLED Next)
          => \/ pc = "returned"
             \/ pc = "thrown_startup"
             \/ pc = "thrown_body" /\ MainThrew
             \/ pc = "aborted"
    /\ pc = "returned" /\ ~EmptyRange /\ parts # <<>>
          => /\ mtrace = Calls(parts[main_idx + 1][1],
                               parts[main_idx + 1][2] - parts[main_idx + 1][1],
                               width, low1, low2)
             /\ \A k \in Spawned :
                   ~WorkerThrew(k)
                      => wtrace[k] = Calls(parts[k + 1][1],
                                           parts[k + 1][2] - parts[k + 1][1],
                                           wst[k].width2, wst[k].low1, wst[k].low2)

\* a worker's call threw, another worker ran beside it, the call returned
C7_Witness ==
    /\ pc = "returned"
    /\ \E k \in Spawned : WorkerThrew(k)
    /\ \E k \in Spawned : ~WorkerThrew(k) /\ Len(wtrace[k]) > 0
    /\ Len(mtrace) > 0

(***************************************************************************)
(* C8: an exception of the body on the calling thread leaves parallel_for.*)
(* Once the calling thread's call threw, the call is at "thrown_body"     *)
(* (or the process was ended by an overflow trap), it never returns, and  *)
(* the calling thread made exactly the calls of its piece up to the       *)
(* throwing one: the remaining indices of its piece are not called.       *)
(***************************************************************************)
C8_MainErrorPropagates ==
    /\ MainThrew => pc \in {"thrown_body", "aborted"}
    /\ pc = "thrown_body"
          => /\ MainThrew
             /\ cur < parts[main_idx + 1][2]
             /\ mtrace = Calls(parts[main_idx + 1][1],
                               cur - parts[main_idx + 1][1] + 1,
                               width, low1, low2)
             /\ \A p \in 1 .. (Len(mtrace) - 1) : ~Throws(mtrace[p])

\* the calling thread's call threw with indices of its piece still to go
C8_Witness ==
    /\ pc = "thrown_body"
    /\ cur + 1 < parts[main_idx + 1][2]
    /\ Len(mtrace) > 1

(***************************************************************************)
(* C9: a call on an empty range returns at once: the only step it takes   *)
(* is the return, no worker is created, the body is never called and no   *)
(* exception is thrown.                                                    *)
(***************************************************************************)
C9_EmptyRangeReturns ==
    EmptyRange
        => /\ pc \in {"entry", "returned"}
           /\ tids = <<>>
           /\ \A k \in Workers : wst[k].st = "unborn"
           /\ Invoked = {}

\* calls on an empty range with numThreads >= 2 have returned
C9_Witness ==
    EmptyRange /\ pc = "returned" /\ numThreadsArg >= 2

(***************************************************************************)
(* C10: a call with numThreads <= 0 runs as the same call with            *)
(* numThreads == 1: its prologue reaches the same position with the same  *)
(* locals, it creates no worker, and the calling thread calls the body in *)
(* the order of the single piece; on return of a 1-D call these are the   *)
(* indices low .. high-1 in increasing order, on return of a 2-D call     *)
(* whose size fits an int the cells in row-major order.                    *)
(***************************************************************************)
\* the prologue of the same call with numThreads == 1
PrologueWithOne ==
    IF dim = "1D" THEN Prologue1D(low, high, 1, ub)
    ELSE Prologue2D(low1, high1, low2, high2, 1, ub)

\* the cells of the 2-D range in row-major order
RowMajor ==
    [p \in 1 .. Size2D |->
        <<low1 + ((p - 1) \div (high2 - low2)),
          low2 + ((p - 1) % (high2 - low2))>>]

C10_NonPositiveAsOne ==
    (numThreadsArg <= 0 /\ pc # "entry")
        => LET one == PrologueWithOne
           IN  /\ numThreads = one.numThreads
               /\ parts = one.parts
               /\ width = one.width
               /\ one.pc # "spawn" => pc = one.pc
               /\ one.pc = "spawn"
                     => /\ pc \in {"spawn", "run", "join", "returned",
                                   "thrown_body", "aborted"}
                        /\ numThreads = 1
                        /\ \E n \in 0 .. (parts[1][2] - parts[1][1]) :
                              mtrace = Calls(parts[1][1], n, width, low1, low2)
               /\ tids = <<>>
               /\ \A k \in Workers : wst[k].st = "unborn" /\ wtrace[k] = <<>>
               /\ (pc = "returned" /\ dim = "1D" /\ low < high)
                     => mtrace = [p \in 1 .. (high - low) |-> <<low + p - 1>>]
               /\ (pc = "returned" /\ dim = "2D" /\ Fits2D)
                     => mtrace = RowMajor

\* a 2-D call with numThreads <= 0 over several rows has returned
C10_Witness ==
    /\ numThreadsArg <= 0 /\ dim = "2D" /\ pc = "returned"
    /\ width > 1 /\ Len(mtrace) > width

(***************************************************************************)
(* sm_split_range on its own: a caller passes any two ints and a piece    *)
(* count, and the function is applied to them once.  (parallel_for itself *)
(* never passes an empty range.)                                           *)
(***************************************************************************)
\* the range bounds passed to sm_split_range: every int
SplitVals == INT_MIN .. INT_MAX

SplitInit ==
    /\ dim = "1D"
    /\ low \in SplitVals /\ high \in SplitVals
    /\ low1 = 0 /\ high1 = 0 /\ low2 = 0 /\ high2 = 0
    /\ bad = {}
    /\ numThreadsArg \in ValsThreads
    /\ ub \in {"wrap", "trap"}
    /\ pc = "entry"
    /\ numThreads = numThreadsArg
    /\ parts = <<>>
    /\ width = 0
    /\ t = 0
    /\ tids = <<>>
    /\ jn = 0
    /\ cur = 0
    /\ wst = [k \in Workers |-> NoArg]
    /\ joins = [k \in Workers |-> 0]
    /\ wtrace = [k \in Workers |-> <<>>]
    /\ mtrace = <<>>
    /\ refs = 0
    /\ argmem = [k \in Workers |-> NoCell]

\* parts = sm_split_range(low, high, numThreadsArg)
CallSplit ==
    /\ pc = "entry"
    /\ LET sp == sm_split_range(low, high, numThreadsArg)
       IN  IF sp.ovf /\ ub = "trap"
           THEN pc' = "aborted" /\ parts' = parts
           ELSE pc' = "split" /\ parts' = sp.parts
    /\ UNCHANGED <<args, numThreads, width, t, tids, jn, cur, wst, joins,
                   wtrace, mtrace, res>>

SplitSpec == SplitInit /\ [][CallSplit]_vars

\* ps is a sequence of n pieces that is ordered, contiguous from lo to hi,
\* covers every index of [lo, hi) exactly once and is balanced within 1
GoodPartition(ps, lo, hi, n) ==
    /\ Len(ps) = n
    /\ \A k \in 1 .. n : ps[k][1] <= ps[k][2]
    /\ ps[1][1] = lo
    /\ \A k \in 1 .. (n - 1) : ps[k + 1][1] = ps[k][2]
    /\ ps[n][2] = hi
    /\ \A x \in lo .. (hi - 1) :
          Cardinality({k \in 1 .. n : ps[k][1] <= x /\ x < ps[k][2]}) = 1
    /\ \A k, m \in 1 .. n :
          (ps[k][2] - ps[k][1]) - (ps[m][2] - ps[m][1]) <= 1

(***************************************************************************)
(* C11: for all low < high and n >= 1, split(low, high, n) returns n      *)
(* pieces that are ordered and contiguous from low to high, cover every   *)
(* index of [low, high) exactly once and differ in size by at most 1.     *)
(***************************************************************************)
C11_SplitIsPartition ==
    (pc = "split" /\ low < high /\ numThreadsArg >= 1)
        => GoodPartition(parts, low, high, numThreadsArg)

\* the same for the ranges whose size fits an int: this part of C11 holds
SplitIsPartition_Fits ==
    (pc # "entry" /\ low < high /\ high - low <= INT_MAX /\ numThreadsArg >= 1)
        => pc = "split" /\ GoodPartition(parts, low, high, numThreadsArg)

(***************************************************************************)
(* C12: for every low >= high and n >= 1, split(low, high, n) returns     *)
(* exactly n pieces, each the empty interval [low, low).                  *)
(***************************************************************************)
C12_SplitOfEmpty ==
    (pc # "entry" /\ low >= high /\ numThreadsArg >= 1)
        => /\ pc = "split"
           /\ Len(parts) = numThreadsArg
           /\ \A k \in 1 .. Len(parts) : parts[k][1] = low /\ parts[k][2] = low

\* an empty range with low > high was split into several pieces
C12_Witness ==
    pc = "split" /\ low > high /\ numThreadsArg >= 2 /\ Len(parts) >= 2

(***************************************************************************)
(* C13: as long as the calling thread can still reach or is in its loop,  *)
(* or a created worker has not finished its loop, the shared callback is  *)
(* alive: its use count is at least 1.  This includes the states after a  *)
(* failed pthread_create and after the calling thread has left with an    *)
(* exception of the body.                                                  *)
(***************************************************************************)
C13_CallbackAlive ==
    (pc \in {"spawn", "unwind", "run"}
       \/ \E k \in Workers : wst[k].st \in {"created", "running"})
        => refs >= 1

\* the calling thread has left with an exception, a worker has not started
\* yet and another thread function is not needed to keep the callback alive
C13_Witness ==
    /\ pc = "thrown_body"
    /\ \E k \in Workers : wst[k].st = "created"
    /\ refs >= 1

(***************************************************************************)
(* C14: a call on a non-empty range (2-D: of a size that fits an int)     *)
(* with numThreads >= 1 whose spawn loop ended without a failure has      *)
(* numThreads pieces and created exactly the workers 0 .. numThreads-2;   *)
(* worker k is bound to piece k and calls the body along it, the calling  *)
(* thread runs piece numThreads-1.  When numThreads exceeds the number of *)
(* indices, the pieces from that number on are empty and their threads,   *)
(* the calling thread among them, never call the body.                    *)
(***************************************************************************)
\* the number of indices of the range of the call
RangeSize == IF dim = "1D" THEN high - low ELSE Size2D

\* the number of iterations of for (i = p[1]; i < p[2]; ++i)
Trips(p) == IF p[1] < p[2] THEN p[2] - p[1] ELSE 0

C14_Binding ==
    (/\ numThreadsArg >= 1
     /\ ~EmptyRange /\ (dim = "2D" => Fits2D)
     /\ pc \in {"run", "join", "returned", "thrown_body"})
        => /\ numThreads = numThreadsArg
           /\ Len(parts) = numThreads
           /\ tids = [p \in 1 .. (numThreads - 1) |-> p - 1]
           /\ \A k \in Workers :
                 IF k <= numThreads - 2
                 THEN /\ wst[k].st # "unborn"
                      /\ wst[k].start_idx = parts[k + 1][1]
                      /\ wst[k].end_idx = parts[k + 1][2]
                      /\ Len(wtrace[k]) <= Trips(parts[k + 1])
                      /\ wtrace[k] = Calls(parts[k + 1][1], Len(wtrace[k]),
                                           width, low1, low2)
                 ELSE wst[k].st = "unborn" /\ wtrace[k] = <<>>
           /\ parts[numThreads][1] <= cur
           /\ cur <= parts[numThreads][1] + Len(mtrace)
           /\ mtrace = Calls(parts[numThreads][1], Len(mtrace),
                             width, low1, low2)
           /\ Len(mtrace) <= Trips(parts[numThreads])
           /\ numThreads > RangeSize
                 => /\ \A k \in (RangeSize + 1) .. numThreads :
                          parts[k][1] = parts[k][2]
                    /\ \A k \in Workers : k >= RangeSize => wtrace[k] = <<>>
                    /\ mtrace = <<>>

\* three threads for a range of one index: worker 0 made the only call
C14_Witness ==
    /\ pc = "returned" /\ RangeSize = 1 /\ numThreadsArg = 3 /\ ~EmptyRange
    /\ Len(tids) = 2 /\ Len(wtrace[0]) = 1

(***************************************************************************)
(* C15: for low < high and n >= 1, with total = high - low,               *)
(* base = total / n and rem = total % n, piece t of split(low, high, n)   *)
(* has size base + 1 when t < rem and size base otherwise, and the pieces *)
(* are laid out consecutively from low; split(0, 10, 3) has the sizes     *)
(* 4, 3, 3.                                                                *)
(***************************************************************************)
\* piece k (from 0) of the layout the sizes base + 1 (k < rem) and base give
LaidOut(lo, total, n, k) ==
    LET base == total \div n
        rem == total % n
        start == lo + k * base + (IF k < rem THEN k ELSE rem)
    IN  <<start, start + base + (IF k < rem THEN 1 ELSE 0)>>

C15_SplitSizes ==
    (pc = "split" /\ low < high /\ numThreadsArg >= 1)
        => /\ Len(parts) = numThreadsArg
           /\ \A k \in 0 .. (numThreadsArg - 1) :
                 parts[k + 1] = LaidOut(low, high - low, numThreadsArg, k)

\* the same for the ranges whose size fits an int; there the call always
\* returns, in both builds
SplitSizes_Fits ==
    (pc # "entry" /\ low < high /\ high - low <= INT_MAX
       /\ numThreadsArg >= 1)
        => /\ pc = "split"
           /\ Len(parts) = numThreadsArg
           /\ \A k \in 0 .. (numThreadsArg - 1) :
                 parts[k + 1] = LaidOut(low, high - low, numThreadsArg, k)

\* split(0, 10, 3) = [0, 4), [4, 7), [7, 10)
SplitExample ==
    (pc = "split" /\ low = 0 /\ high = 10 /\ numThreadsArg = 3)
        => parts = <<(<<0, 4>>), (<<4, 7>>), (<<7, 10>>)>>

(***************************************************************************)
(* C16: in every reachable state the calls of the body made so far by one *)
(* thread, a worker or the calling thread, are in strictly increasing     *)
(* index order (1-D), respectively in row-major order of (i, j) (2-D).    *)
(* Nothing is said about calls of different threads.                       *)
(***************************************************************************)
\* a comes before c: by index (1-D), in row-major order (2-D)
Before(a, c) ==
    IF dim = "1D"
    THEN a[1] < c[1]
    ELSE a[1] < c[1] \/ (a[1] = c[1] /\ a[2] < c[2])

Increasing(tr) ==
    \A p \in 1 .. Len(tr) : \A q \in 1 .. Len(tr) :
        p < q => Before(tr[p], tr[q])

C16_IncreasingOrder ==
    /\ Increasing(mtrace)
    /\ \A k \in Workers : Increasing(wtrace[k])

\* the same for every 1-D range and for the 2-D ranges whose size fits an
\* int: there a thread with two or more calls made them in order
IncreasingOrder_Fits ==
    (dim = "2D" => Fits2D) => C16_IncreasingOrder

\* in every call, whatever the range, the p-th call of a thread is the one
\* for the p-th flat index of its piece
FlatOrder ==
    /\ Len(parts) > 0
          => mtrace = Calls(parts[Len(parts)][1], Len(mtrace),
                            width, low1, low2)
    /\ \A k \in Workers :
          wtrace[k] = Calls(wst[k].start_idx, Len(wtrace[k]),
                            width, low1, low2)

(***************************************************************************)
(* C17: for a 2-D range with rows > 0 and cols > 0 whose size fits an     *)
(* int, the mapping f -> (f / cols + low1, f % cols + low2) sends the     *)
(* flat range [0, rows * cols) one-to-one onto the cells of the range,    *)
(* and (i, j) -> (i - low1) * cols + (j - low2) is its inverse, also for  *)
(* negative low1 or low2; the cell a thread calls the body with at its    *)
(* p-th loop position flattens back to that position.                      *)
(***************************************************************************)
\* c is a cell of the range
InRange(c) ==
    /\ low1 <= c[1] /\ c[1] < high1
    /\ low2 <= c[2] /\ c[2] < high2

\* the inverse the claim gives
Flatten(c) == (c[1] - low1) * (high2 - low2) + (c[2] - low2)

\* the p-th call in trace tr of a loop that started at flat index first
FlattensBack(tr, first) ==
    \A p \in 1 .. Len(tr) : InRange(tr[p]) /\ Flatten(tr[p]) = first + p - 1

C17_MappingBijection ==
    (dim = "2D" /\ Fits2D)
        => /\ \A f \in 0 .. (Size2D - 1) :
                 /\ ~MapOverflows(f, high2 - low2, low1, low2)
                 /\ InRange(MapFlat(f, high2 - low2, low1, low2))
                 /\ Flatten(MapFlat(f, high2 - low2, low1, low2)) = f
           /\ \A c \in Cells :
                 /\ Flatten(c) \in 0 .. (Size2D - 1)
                 /\ MapFlat(Flatten(c), high2 - low2, low1, low2) = c
           /\ Len(parts) > 0 => FlattensBack(mtrace, parts[Len(parts)][1])
           /\ \A k \in Workers : FlattensBack(wtrace[k], wst[k].start_idx)

\* a finished call on a range of several rows and columns with a negative
\* origin, in which every cell was reached
C17_Witness ==
    /\ dim = "2D" /\ Fits2D /\ pc = "returned"
    /\ (low1 < 0 \/ low2 < 0)
    /\ high1 - low1 > 1 /\ high2 - low2 > 1
    /\ Invoked = Cells

(***************************************************************************)
(* C18: when every call of the body terminates and the threads are        *)
(* scheduled fairly, every call of parallel_for eventually finishes, and  *)
(* the thread a join loop waits for is always one that was created and    *)
(* has not been joined before.                                             *)
(***************************************************************************)
\* the calling thread is in a join loop and has a thread left to join
InJoin == pc \in {"unwind", "join"} /\ jn < Len(tids)

\* the thread the calling thread is about to join was created by
\* pthread_create and has not been joined yet
JoinTargetOk ==
    InJoin => /\ wst[tids[jn + 1]].st # "unborn"
              /\ joins[tids[jn + 1]] = 0

\* the call is over: it returned, it threw, or the build trapped on the
\* overflow of high - low
CallOver == Left \/ pc = "aborted"

C18_Terminates == []JoinTargetOk /\ <>CallOver

\* the calling thread is blocked in pthread_join on a worker that is still
\* running
C18_Witness ==
    /\ InJoin
    /\ wst[tids[jn + 1]].st = "running"

(***************************************************************************)
(* C19: when pthread_create fails at spawn attempt t + 1, the calling     *)
(* thread never calls the body, the pieces t, t + 1, ..., among them the  *)
(* calling thread's piece numThreads - 1, are called zero times, and when *)
(* the error is thrown every worker 0 .. t - 1 has run its piece to the   *)
(* end or to its first throwing call; those calls stay as they are.       *)
(***************************************************************************)
\* worker k has made the calls of its piece in order, up to the end of the
\* piece or up to the first call that threw
RanToEnd(k) ==
    LET n == Len(wtrace[k])
    IN  /\ wtrace[k] = Calls(parts[k + 1][1], n, width, low1, low2)
        /\ \A p \in 1 .. (n - 1) : ~Throws(wtrace[k][p])
        /\ n = Trips(parts[k + 1]) \/ WorkerThrew(k)

C19_FailureFrame ==
    pc \in {"unwind", "thrown_startup"}
        => /\ t < to_create
           /\ mtrace = <<>>
           /\ \A k \in Workers :
                 k >= t => wst[k].st = "unborn" /\ wtrace[k] = <<>>
           /\ pc = "thrown_startup"
                 => \A k \in Workers :
                       k < t => wst[k].st = "done" /\ RanToEnd(k)

\* the second pthread_create failed, worker 0 has made calls, and the
\* calling thread's piece is not empty
C19_Witness ==
    /\ pc = "thrown_startup" /\ t = 1
    /\ Len(wtrace[0]) >= 1
    /\ Trips(parts[numThreads]) >= 1

(***************************************************************************)
(* C20: every SM_ThreadArg a call allocates is freed exactly once: by its *)
(* worker when the worker's loop has ended, normally or through a caught  *)
(* exception of the body, or by the calling thread when pthread_create    *)
(* failed for it.  It is never freed twice, a record that is still        *)
(* allocated belongs to a worker that has yet to end, and no worker reads *)
(* its record after the record was freed.                                  *)
(***************************************************************************)
C20_FreedOnce ==
    \A k \in Workers :
        /\ argmem[k].frees <= 1
        /\ argmem[k].state = "freed" <=> argmem[k].frees = 1
        /\ ~argmem[k].stale
        /\ argmem[k].state = "live" <=> wst[k].st \in {"created", "running"}
        /\ wst[k].st = "done" => argmem[k].state = "freed"
        /\ (pc \in {"unwind", "thrown_startup"} /\ k = t)
              => argmem[k].state = "freed" /\ wst[k].st = "unborn"
        /\ (Left /\ argmem[k].state = "none") => wst[k].st = "unborn"

\* after a failed second pthread_create: the record of worker 0 was freed by
\* the worker, whose body threw, and the record of the failed spawn by the
\* calling thread
C20_Witness ==
    /\ pc = "thrown_startup" /\ t = 1
    /\ wst[0].st = "done" /\ WorkerThrew(0) /\ argmem[0].frees = 1
    /\ wst[1].st = "unborn" /\ argmem[1].frees = 1

====
